---------------------------- MODULE Spec2Model ----------------------------
(***************************************************************************)
(* StitchInterviewer: the interview views of the client (the test          *)
(* interview view, its earlier revision and the shared interview page),    *)
(* the simulated voice agent they build for placeholder ids, and the       *)
(* transcript persistence path down to the storage classes.                *)
(*                                                                         *)
(* Time is in milliseconds.  React state setters are modelled as the       *)
(* assignment of the value handed to them; an effect's cleanup runs in the *)
(* same step as the state change that triggers it.                         *)
(***************************************************************************)
EXTENDS Integers, Sequences, FiniteSets, TLC

(***************************************************************************)
(* Bounds of the exploration.                                              *)
(***************************************************************************)
MaxSeconds == 8         \* the clock stops advancing here
MaxIdleSeconds == 0     \* with no timer pending the clock advances up to here
MaxStarts == 1          \* clicks on "Start Interview" on one view
MaxMessages == 1        \* transcript entries appended from real-client events
ScriptSeconds == 84     \* the clock of the script run stops here
MaxEntries == 3         \* transcript entries of one controller session
MaxEndCalls == 2        \* calls of end() on one controller
MaxIntervals == 3       \* intervals one simulated agent creates
MaxStops == 2           \* calls of stop() on one simulated agent
MaxCalls == 2           \* calls of createInterviewAssistant
MaxProjects == 1        \* projects created in the store
MaxMaterials == 1       \* research materials uploaded
MaxStoredTranscripts == 1   \* transcripts created in the store
MaxEnhanceCalls == 1    \* POST /api/enhance-prompt requests accepted

(***************************************************************************)
(* Program constants.                                                      *)
(***************************************************************************)
VolumePeriod == 1000
TranscriptPeriod == 8000

NoClient == 0
NoTimer == 0

Views == {"testNew", "testOld", "shared"}

\* An identifier is a prefix followed by a number (Date.now() or a vendor id).
MockCallPrefix == "mock-call-"
MockAssistantPrefix == "mock-assistant-"
Undefined == [prefix |-> "undefined", n |-> 0]
SessionIds ==
    { [prefix |-> p, n |-> 1] : p \in {MockCallPrefix, MockAssistantPrefix, ""} }

StartsWith(id, p) == id.prefix = p

\* The events of the voice client the views listen to.
ClientEvents ==
    {"volume-level", "call-start", "call-end", "speech-start", "speech-end",
     "message", "error"}

\* Math.random() * 0.5 and the vendor's volume level, in hundredths.
MockVolumes == {0, 49}
RealVolumes == {0, 100}

mockScript ==
    << [speaker |-> "assistant", text |-> "hello"],
       [speaker |-> "assistant", text |-> "about yourself"],
       [speaker |-> "user",      text |-> "[User speaks]"],
       [speaker |-> "assistant", text |-> "what challenges"],
       [speaker |-> "user",      text |-> "[User describes challenges]"],
       [speaker |-> "assistant", text |-> "how overcome"],
       [speaker |-> "user",      text |-> "[User explains strategies]"],
       [speaker |-> "assistant", text |-> "what improvements"],
       [speaker |-> "user",      text |-> "[User provides suggestions]"],
       [speaker |-> "assistant", text |-> "thank you"] >>

VARIABLES
    view,               \* which component this instance is
    mounted,            \* the component is mounted
    isInterviewActive,  \* useState(false)
    vapiInstance,       \* useState(null): index into clients, or NoClient
    isMuted,            \* useState(false)
    volume,             \* useState(0)
    isCreatingCall,     \* useState(false)            (test views)
    isLoading,          \* useState(true)             (shared page)
    error,              \* useState(null)             (shared page)
    transcript,         \* useState([])               (testNew)
    clients,            \* every client object built so far
    timers,             \* the live setInterval timers
    nextTimer,          \* the next interval id
    now,                \* the clock
    createReq,          \* create-interview requests awaiting their response
    starts,             \* number of sessions requested
    notifications,      \* toasts shown, by title
    noopMute,           \* toggleMute has run with no client attached
    wasEnded,           \* a session of this view has been terminated
    apiKey,             \* VITE_VAPI_API_KEY is set
    status,             \* Session Controller: idle, connecting, active, ended
    savedFlag,          \* Session Controller: a persistence write has succeeded
    submissions,        \* transcript submissions made, with their outcome
    endCalls,           \* the reasons end() has been called with
    shortDuration,      \* the duration sent for fewer than two entries
    backend,            \* the IStorage implementation behind the server
    stored,             \* the records createTranscript has returned
    assistantCalls,     \* the calls of createInterviewAssistant on the server
    storage,            \* the server's store: projects, materials, transcripts
    enhanceCalls        \* the POST /api/enhance-prompt handlers past their checks

uiVars == <<view, mounted, isInterviewActive, vapiInstance, isMuted, volume,
            isCreatingCall, isLoading, error, transcript>>
envVars == <<clients, timers, nextTimer, now, createReq, starts,
             notifications, noopMute, wasEnded, apiKey>>
persistVars == <<status, savedFlag, submissions, endCalls, shortDuration,
                 backend, stored, assistantCalls, storage, enhanceCalls>>

(***************************************************************************)
(* The simulated voice agent (mockVapi) and the client objects.            *)
(***************************************************************************)
NewClient(kind, id) ==
    [ kind |-> kind,                 \* "mock" or "real"
      sessionId |-> id,              \* the id startInterview was called with
      phase |-> "new",               \* new, starting, running, failed
      handlers |-> {},               \* events a callback is registered for
      muted |-> FALSE,               \* last value given to setMuted
      stopCalls |-> 0,               \* calls of stop()
      callEnded |-> FALSE,           \* the vendor has emitted call-end
      callStarted |-> FALSE,         \* the vendor has emitted call-start
      ended |-> FALSE,               \* the view has ended the session on it
      textEvents |-> 0,              \* "transcript" events that carried a text
      mockVolumeInterval |-> NoTimer,
      mockTranscriptInterval |-> NoTimer,
      startedAt |-> 0 ]

ClearInterval(ts, id) == { t \in ts : t.id # id }

\* A stop() that leaves the transcript interval to its second call.
MockStopInTwoCalls(ts, c) ==
    LET ts1 == IF c.mockVolumeInterval # NoTimer
               THEN ClearInterval(ts, c.mockVolumeInterval) ELSE ts
    IN  IF c.mockTranscriptInterval # NoTimer /\ c.stopCalls > 0
        THEN ClearInterval(ts1, c.mockTranscriptInterval) ELSE ts1

\* mockVapi.stop: the timers left after client record c has run stop().
MockStop(ts, c) ==
    LET ts1 == IF c.mockVolumeInterval # NoTimer
               THEN ClearInterval(ts, c.mockVolumeInterval) ELSE ts
    IN  IF c.mockTranscriptInterval # NoTimer
        THEN ClearInterval(ts1, c.mockTranscriptInterval) ELSE ts1

\* client.stop() for either kind: the real client owns no timer of ours.
StopTimers(ts, c) == IF c.kind = "mock" THEN MockStop(ts, c) ELSE ts

Stopped(c) == [c EXCEPT !.stopCalls = @ + 1]

\* The cleanup returned by the effect on [vapiInstance] of the test views:
\* stop(), then clearInterval of the interval ids read when the effect ran.
CleanupTimers(ts, c) ==
    LET ts1 == StopTimers(ts, c)
        ts2 == IF c.mockVolumeInterval # NoTimer
               THEN ClearInterval(ts1, c.mockVolumeInterval) ELSE ts1
    IN  IF c.mockTranscriptInterval # NoTimer
        THEN ClearInterval(ts2, c.mockTranscriptInterval) ELSE ts2

Entry(speaker, text, id) ==
    [id |-> id, type |-> speaker, text |-> text, timestamp |-> now]

\* generateId(): the random ids are taken to be distinct tokens.
MockId(i) == <<"rnd", i>>

\* A state setter: React drops updates of an unmounted component.
Set(old, new) == IF mounted THEN new ELSE old

Toast(title) == notifications \cup {title}

TestView == view \in {"testNew", "testOld"}

\* setVapiInstance(next) on a test view: when the value changes, the cleanup
\* of the effect on [vapiInstance] stops the client held before.
ClientsAfterSet(cs, next) ==
    IF mounted /\ TestView /\ vapiInstance # NoClient /\ vapiInstance # next
    THEN [cs EXCEPT ![vapiInstance] = Stopped(@)]
    ELSE cs

TimersAfterSet(ts, cs, next) ==
    IF mounted /\ TestView /\ vapiInstance # NoClient /\ vapiInstance # next
    THEN CleanupTimers(ts, cs[vapiInstance])
    ELSE ts

(***************************************************************************)
(* The session status of the specification, read off the component state.  *)
(***************************************************************************)
Status ==
    IF isInterviewActive THEN "active"
    ELSE IF (TestView /\ isCreatingCall) \/ (view = "shared" /\ isLoading)
         THEN "connecting"
    ELSE IF wasEnded THEN "ended"
    ELSE "idle"

(***************************************************************************)
(* Initial state: a freshly mounted view.                                  *)
(***************************************************************************)
InitView ==
    /\ view \in Views
    /\ apiKey \in (IF view = "shared" THEN BOOLEAN ELSE {TRUE})
    /\ mounted = TRUE
    /\ isInterviewActive = FALSE
    /\ vapiInstance = NoClient
    /\ isMuted = FALSE
    /\ volume = 0
    /\ isCreatingCall = FALSE
    /\ isLoading = TRUE
    /\ error = "null"
    /\ transcript = << >>
    /\ clients = << >>
    /\ timers = {}
    /\ nextTimer = 1
    /\ now = 0
    /\ createReq = 0
    /\ starts = 0
    /\ notifications = {}
    /\ noopMute = FALSE
    /\ wasEnded = FALSE

(***************************************************************************)
(* Values of the duration field: a number, null, or no field at all.       *)
(***************************************************************************)
Num(n) == [kind |-> "number", n |-> n]
Null == [kind |-> "null", n |-> 0]
Absent == [kind |-> "undefined", n |-> 0]

Backends == {"MemStorage", "DatabaseStorage"}

\* A new Session Controller: no session yet, nothing saved or submitted.
InitSession ==
    /\ status = "idle"
    /\ savedFlag = FALSE
    /\ submissions = << >>
    /\ endCalls = << >>
    /\ stored = << >>

\* "new MemStorage()": empty maps, every id counter at 1.
EmptyStorage ==
    [projects |-> << >>,
     researchMaterials |-> << >>,
     transcripts |-> << >>,
     currentProjectId |-> 1,
     currentResearchMaterialId |-> 1,
     currentTranscriptId |-> 1]

InitBackend ==
    /\ assistantCalls = << >>
    /\ storage = EmptyStorage
    /\ enhanceCalls = << >>

Init ==
    /\ InitView
    /\ InitSession
    /\ InitBackend
    /\ shortDuration = Num(0)
    /\ backend = "DatabaseStorage"

(***************************************************************************)
(* Test views: createInterviewMutation.                                    *)
(***************************************************************************)
\* The "Start Interview" button: rendered while no interview is active,
\* disabled while isCreatingCall; mutationFn sets isCreatingCall and posts.
ClickStartUpTo(maxStarts) ==
    /\ TestView /\ mounted
    /\ ~isInterviewActive /\ ~isCreatingCall
    /\ starts < maxStarts
    /\ isCreatingCall' = TRUE
    /\ createReq' = createReq + 1
    /\ starts' = starts + 1
    /\ UNCHANGED <<persistVars, view, mounted, isInterviewActive, vapiInstance, isMuted,
                   volume, isLoading, error, transcript, clients, timers,
                   nextTimer, now, notifications, wasEnded, apiKey, noopMute>>

\* An onError that posts the request again instead of giving up.
CreateFailsAndRetries ==
    /\ TestView /\ createReq > 0
    /\ createReq' = createReq
    /\ isCreatingCall' = Set(isCreatingCall, TRUE)
    /\ notifications' = Toast("Failed to create interview")
    /\ UNCHANGED <<persistVars, view, mounted, isInterviewActive, vapiInstance, isMuted,
                   volume, isLoading, error, transcript, clients, timers,
                   nextTimer, now, starts, wasEnded, apiKey, noopMute>>

\* onError of the mutation.
CreateFails ==
    /\ TestView /\ createReq > 0
    /\ createReq' = createReq - 1
    /\ isCreatingCall' = Set(isCreatingCall, FALSE)
    /\ notifications' = Toast("Failed to create interview")
    /\ UNCHANGED <<persistVars, view, mounted, isInterviewActive, vapiInstance, isMuted,
                   volume, isLoading, error, transcript, clients, timers,
                   nextTimer, now, starts, wasEnded, apiKey, noopMute>>

\* startInterview(undefined) on testNew: callId.startsWith throws inside the
\* try block and the catch reports it.
StartThrowsOnUndefined ==
    /\ isCreatingCall' = Set(isCreatingCall, FALSE)
    /\ notifications' = Toast("Failed to start interview")
    /\ UNCHANGED <<isInterviewActive, vapiInstance, isMuted, volume, isLoading,
                   error, transcript, clients, timers, nextTimer, wasEnded>>

\* The mock branch of startInterview on testNew, up to its return: the mock
\* object, on('volume-level'), start(), then the three setters.  Nothing
\* but microtasks separates these statements.
StartMockTestNew(id) ==
    LET c == Len(clients) + 1
        volTimer == [id |-> nextTimer, kind |-> "volume", owner |-> c,
                     due |-> now + VolumePeriod, messageIndex |-> 0]
        trTimer == [id |-> nextTimer + 1, kind |-> "transcript", owner |-> c,
                    due |-> now + TranscriptPeriod, messageIndex |-> 1]
        mock == [NewClient("mock", id) EXCEPT
                    !.phase = "running",
                    !.handlers = {"volume-level"},
                    !.mockVolumeInterval = nextTimer,
                    !.mockTranscriptInterval = nextTimer + 1,
                    !.startedAt = now]
        cs == Append(clients, mock)
    IN  /\ transcript' = Set(transcript,
                             << Entry(mockScript[1].speaker, mockScript[1].text,
                                      MockId(0)) >>)
        /\ clients' = ClientsAfterSet(cs, c)
        /\ timers' = TimersAfterSet(timers, cs, c) \cup {volTimer, trTimer}
        /\ nextTimer' = nextTimer + 2
        /\ vapiInstance' = Set(vapiInstance, c)
        /\ isInterviewActive' = Set(isInterviewActive, TRUE)
        /\ isCreatingCall' = Set(isCreatingCall, FALSE)
        /\ UNCHANGED <<isMuted, volume, isLoading, error, notifications,
                       wasEnded>>

\* The real branch of startInterview up to "await vapi.start()".
StartRealTest(id) ==
    LET real == [NewClient("real", id) EXCEPT
                    !.phase = "starting",
                    !.handlers = IF view = "testNew"
                                 THEN {"volume-level", "call-end", "transcript",
                                       "error"}
                                 ELSE {"volume-level", "call-end"}]
    IN  /\ clients' = Append(clients, real)
        /\ UNCHANGED <<isInterviewActive, vapiInstance, isMuted, volume,
                       isCreatingCall, isLoading, error, transcript, timers,
                       nextTimer, notifications, wasEnded>>

\* startInterview(callId) of the test views, up to its first real wait.
StartInterviewTest(id) ==
    IF view = "testOld" THEN StartRealTest(id)
    ELSE IF id = Undefined THEN StartThrowsOnUndefined
    ELSE IF StartsWith(id, MockCallPrefix) THEN StartMockTestNew(id)
    ELSE StartRealTest(id)

\* onSuccess of the mutation: startInterview(data.callId), for a response
\* whose callId is one of ids.
CreateSucceedsWith(ids) ==
    /\ TestView /\ createReq > 0
    /\ createReq' = createReq - 1
    /\ \E id \in ids : StartInterviewTest(id)
    /\ UNCHANGED <<persistVars, view, mounted, now, starts, apiKey, noopMute>>

CreateSucceeds == CreateSucceedsWith(SessionIds \cup {Undefined})

\* "await vapi.start()" resolves: the statements after it.
RealStartResolves ==
    \E c \in DOMAIN clients :
        /\ clients[c].kind = "real" /\ clients[c].phase = "starting"
        /\ LET cs == [clients EXCEPT ![c].phase = "running"]
           IN  /\ clients' = ClientsAfterSet(cs, c)
               /\ timers' = TimersAfterSet(timers, cs, c)
        /\ vapiInstance' = Set(vapiInstance, c)
        /\ IF TestView
           THEN /\ isInterviewActive' = Set(isInterviewActive, TRUE)
                /\ isCreatingCall' = Set(isCreatingCall, FALSE)
                /\ UNCHANGED isLoading
           ELSE /\ isLoading' = Set(isLoading, FALSE)
                /\ UNCHANGED <<isInterviewActive, isCreatingCall>>
        /\ UNCHANGED <<persistVars, view, mounted, isMuted, volume, error, transcript,
                       nextTimer, now, createReq, starts, notifications,
                       wasEnded, apiKey, noopMute>>

\* "await vapi.start()" rejects: the catch block.  A start() that fails has
\* not connected the call: it has announced no call-start and no transcript.
RealStartThrows ==
    \E c \in DOMAIN clients :
        /\ clients[c].kind = "real" /\ clients[c].phase = "starting"
        /\ ~clients[c].callStarted /\ clients[c].textEvents = 0
        /\ clients' = [clients EXCEPT ![c].phase = "failed"]
        /\ IF TestView
           THEN /\ isCreatingCall' = Set(isCreatingCall, FALSE)
                /\ notifications' = Toast("Failed to start interview")
                /\ UNCHANGED <<isLoading, error>>
           ELSE /\ error' = Set(error, "Failed to start interview")
                /\ isLoading' = Set(isLoading, FALSE)
                /\ UNCHANGED <<isCreatingCall, notifications>>
        /\ UNCHANGED <<persistVars, view, mounted, isInterviewActive, vapiInstance, isMuted,
                       volume, transcript, timers, nextTimer, now, createReq,
                       starts, wasEnded, apiKey, noopMute>>

(***************************************************************************)
(* Events of the real client.  The vendor's emitter calls the callback     *)
(* registered for an event; it emits while the call is being set up or is  *)
(* running, and one call-end, which may come after stop().                 *)
(***************************************************************************)
Emitting(c) ==
    /\ clients[c].kind = "real"
    /\ clients[c].phase \in {"starting", "running"}
    /\ ~clients[c].callEnded
    /\ clients[c].stopCalls = 0

\* A volume-level handler that also clears the transcript.
OnVolumeLevelResets ==
    \E c \in DOMAIN clients, level \in RealVolumes :
        /\ Emitting(c) /\ "volume-level" \in clients[c].handlers
        /\ volume' = Set(volume, level)
        /\ transcript' = Set(transcript, << >>)
        /\ UNCHANGED <<persistVars, view, mounted, isInterviewActive, vapiInstance, isMuted,
                       isCreatingCall, isLoading, error, clients,
                       timers, nextTimer, now, createReq, starts,
                       notifications, wasEnded, apiKey, noopMute>>

\* vapi.on("volume-level", level => setVolume(level))
OnVolumeLevel ==
    \E c \in DOMAIN clients, level \in RealVolumes :
        /\ Emitting(c) /\ "volume-level" \in clients[c].handlers
        /\ volume' = Set(volume, level)
        /\ UNCHANGED <<persistVars, view, mounted, isInterviewActive, vapiInstance, isMuted,
                       isCreatingCall, isLoading, error, transcript, clients,
                       timers, nextTimer, now, createReq, starts,
                       notifications, wasEnded, apiKey, noopMute>>

\* A call-end handler that raises isCreatingCall instead of clearing it.
OnCallEndCreating ==
    \E c \in DOMAIN clients :
        /\ clients[c].kind = "real"
        /\ clients[c].phase \in {"starting", "running"}
        /\ ~clients[c].callEnded
        /\ "call-end" \in clients[c].handlers
        /\ clients' = [clients EXCEPT ![c].callEnded = TRUE]
        /\ isInterviewActive' = Set(isInterviewActive, FALSE)
        /\ isCreatingCall' = IF TestView THEN Set(isCreatingCall, TRUE)
                             ELSE isCreatingCall
        /\ wasEnded' = TRUE
        /\ UNCHANGED <<persistVars, view, mounted, vapiInstance, isMuted, volume, isLoading,
                       error, transcript, timers, nextTimer, now, createReq,
                       starts, notifications, apiKey, noopMute>>

\* vapi.on("call-end", ...)
OnCallEnd ==
    \E c \in DOMAIN clients :
        /\ clients[c].kind = "real"
        /\ clients[c].phase \in {"starting", "running"}
        /\ ~clients[c].callEnded
        /\ "call-end" \in clients[c].handlers
        /\ clients' = [clients EXCEPT ![c].callEnded = TRUE]
        /\ isInterviewActive' = Set(isInterviewActive, FALSE)
        /\ isCreatingCall' = IF TestView THEN Set(isCreatingCall, FALSE)
                             ELSE isCreatingCall
        /\ wasEnded' = TRUE
        /\ UNCHANGED <<persistVars, view, mounted, vapiInstance, isMuted, volume, isLoading,
                       error, transcript, timers, nextTimer, now, createReq,
                       starts, notifications, apiKey, noopMute>>

\* The argument of a transcript event: nothing at all, or a role and a text.
TranscriptArgs ==
    {[present |-> FALSE, role |-> "", text |-> ""]} \cup
    { [present |-> TRUE, role |-> r, text |-> t] :
        r \in {"assistant", "user"}, t \in {"", "hi"} }

RealEntries(tr) ==
    Cardinality({ i \in DOMAIN tr : tr[i].id[1] = "transcript-" })

\* A transcript handler that skips a text the transcript already shows.
OnTranscriptOnce(maxMessages) ==
    \E c \in DOMAIN clients, t \in TranscriptArgs :
        /\ Emitting(c) /\ "transcript" \in clients[c].handlers
        /\ RealEntries(transcript) < maxMessages
        /\ clients[c].textEvents < maxMessages
        /\ transcript' =
             IF /\ t.present /\ t.text # ""
                /\ \A i \in DOMAIN transcript : transcript[i].text # t.text
             THEN Set(transcript,
                      Append(transcript,
                             Entry(IF t.role = "assistant" THEN "assistant"
                                   ELSE "user",
                                   t.text, <<"transcript-", now>>)))
             ELSE transcript
        /\ clients' = [clients EXCEPT
                         ![c].textEvents =
                             IF t.present /\ t.text # "" THEN @ + 1 ELSE @]
        /\ UNCHANGED <<persistVars, view, mounted, isInterviewActive, vapiInstance, isMuted,
                       volume, isCreatingCall, isLoading, error,
                       timers, nextTimer, now, createReq, starts,
                       notifications, wasEnded, apiKey, noopMute>>

\* vapi.on("transcript", ...) of testNew
OnTranscriptUpTo(maxMessages) ==
    \E c \in DOMAIN clients, t \in TranscriptArgs :
        /\ Emitting(c) /\ "transcript" \in clients[c].handlers
        /\ RealEntries(transcript) < maxMessages
        /\ clients[c].textEvents < maxMessages
        /\ transcript' =
             IF t.present /\ t.text # ""
             THEN Set(transcript,
                      Append(transcript,
                             Entry(IF t.role = "assistant" THEN "assistant"
                                   ELSE "user",
                                   t.text, <<"transcript-", now>>)))
             ELSE transcript
        /\ clients' = [clients EXCEPT
                         ![c].textEvents =
                             IF t.present /\ t.text # "" THEN @ + 1 ELSE @]
        /\ UNCHANGED <<persistVars, view, mounted, isInterviewActive, vapiInstance, isMuted,
                       volume, isCreatingCall, isLoading, error,
                       timers, nextTimer, now, createReq, starts,
                       notifications, wasEnded, apiKey, noopMute>>

\* An error handler that also takes the interview out of its active state.
OnErrorEndsInterview ==
    \E c \in DOMAIN clients :
        /\ Emitting(c) /\ "error" \in clients[c].handlers
        /\ notifications' = Toast("Interview error")
        /\ isInterviewActive' = Set(isInterviewActive, FALSE)
        /\ UNCHANGED <<persistVars, view, mounted, vapiInstance, isMuted,
                       volume, isCreatingCall, isLoading, error, transcript,
                       clients, timers, nextTimer, now, createReq, starts,
                       wasEnded, apiKey, noopMute>>

\* vapi.on("error", ...): console.error and a toast.
OnError ==
    \E c \in DOMAIN clients :
        /\ Emitting(c) /\ "error" \in clients[c].handlers
        /\ notifications' = Toast("Interview error")
        /\ UNCHANGED <<persistVars, view, mounted, isInterviewActive, vapiInstance, isMuted,
                       volume, isCreatingCall, isLoading, error, transcript,
                       clients, timers, nextTimer, now, createReq, starts,
                       wasEnded, apiKey, noopMute>>

(***************************************************************************)
(* The buttons of an active interview, and the unmount.                    *)
(***************************************************************************)
\* The shared page has not yet run its mount effect.
NotStarted == isLoading /\ clients = << >> /\ error = "null"

\* The mute and end buttons are rendered while isInterviewActive; the shared
\* page renders its loading or error screen instead while either is set.
ControlsShown ==
    /\ mounted /\ isInterviewActive
    /\ view = "shared" => (~isLoading /\ error = "null")

\* endInterview, and on the test views the effect cleanup that
\* setVapiInstance(null) triggers.
EndInterview ==
    /\ ControlsShown
    /\ IF vapiInstance # NoClient
       THEN LET c == vapiInstance
                cs == [clients EXCEPT ![c] = [Stopped(@) EXCEPT !.ended = TRUE]]
                ts == StopTimers(timers, clients[c])
            IN  /\ clients' = ClientsAfterSet(cs, NoClient)
                /\ timers' = TimersAfterSet(ts, cs, NoClient)
                /\ vapiInstance' = NoClient
                /\ isInterviewActive' = FALSE
                /\ wasEnded' = TRUE
       ELSE UNCHANGED <<clients, timers, vapiInstance, isInterviewActive,
                        wasEnded>>
    /\ UNCHANGED <<persistVars, view, mounted, isMuted, volume, isCreatingCall, isLoading,
                   error, transcript, nextTimer, now, createReq, starts,
                   notifications, apiKey, noopMute>>

\* A toggleMute that flips the flag whether or not a client is attached.
ToggleMuteUnguarded ==
    /\ mounted
    /\ clients' = IF vapiInstance # NoClient
                  THEN [clients EXCEPT ![vapiInstance].muted = ~isMuted]
                  ELSE clients
    /\ isMuted' = ~isMuted
    /\ noopMute' = (noopMute \/ vapiInstance = NoClient)
    /\ UNCHANGED <<persistVars, view, mounted, isInterviewActive, vapiInstance, volume,
                   isCreatingCall, isLoading, error, transcript, timers,
                   nextTimer, now, createReq, starts, notifications, wasEnded,
                   apiKey>>

\* toggleMute, called by the mute button or directly: the function itself
\* tests nothing but vapiInstance.
ToggleMute ==
    /\ mounted
    /\ IF vapiInstance # NoClient
       THEN /\ clients' = [clients EXCEPT ![vapiInstance].muted = ~isMuted]
            /\ isMuted' = ~isMuted
            /\ UNCHANGED noopMute
       ELSE /\ noopMute' = TRUE
            /\ UNCHANGED <<clients, isMuted>>
    /\ UNCHANGED <<persistVars, view, mounted, isInterviewActive, vapiInstance, volume,
                   isCreatingCall, isLoading, error, transcript, timers,
                   nextTimer, now, createReq, starts, notifications, wasEnded,
                   apiKey>>

\* The component unmounts.  The test views' cleanup closes over the current
\* vapiInstance; the shared page's cleanup closes over the vapiInstance of
\* the render that ran the mount effect, which is null.
Unmount ==
    /\ mounted
    /\ view = "shared" => ~NotStarted
    /\ mounted' = FALSE
    /\ IF vapiInstance # NoClient
       THEN /\ clients' = [clients EXCEPT ![vapiInstance] =
                              IF TestView
                              THEN [Stopped(@) EXCEPT !.ended = TRUE]
                              ELSE [@ EXCEPT !.ended = TRUE]]
            /\ timers' = IF TestView
                         THEN CleanupTimers(timers, clients[vapiInstance])
                         ELSE timers
            /\ wasEnded' = TRUE
       ELSE UNCHANGED <<clients, timers, wasEnded>>
    /\ UNCHANGED <<persistVars, view, isInterviewActive, vapiInstance, isMuted, volume,
                   isCreatingCall, isLoading, error, transcript, nextTimer,
                   now, createReq, starts, notifications, apiKey, noopMute>>

(***************************************************************************)
(* Timers and the clock.                                                   *)
(***************************************************************************)
Due == { t \in timers : t.due <= now }

Reschedule(ts, t, period) ==
    (ts \ {t}) \cup {[t EXCEPT !.due = @ + period]}

\* The volume interval of the mock: callback(Math.random() * 0.5).
VolumeTick ==
    \E t \in Due, level \in MockVolumes :
        /\ t.kind = "volume"
        /\ volume' = Set(volume, level)
        /\ timers' = Reschedule(timers, t, VolumePeriod)
        /\ UNCHANGED <<persistVars, view, mounted, isInterviewActive, vapiInstance, isMuted,
                       isCreatingCall, isLoading, error, transcript, clients,
                       nextTimer, now, createReq, starts, notifications,
                       wasEnded, apiKey, noopMute>>

\* A transcript interval that never moves on to the next line of the script.
TranscriptTickNoIncrement ==
    \E t \in Due :
        /\ t.kind = "transcript"
        /\ LET i == t.messageIndex
           IN  /\ transcript' =
                     Set(transcript,
                         Append(transcript,
                                Entry(mockScript[i + 1].speaker,
                                      mockScript[i + 1].text, MockId(i))))
               /\ timers' = Reschedule(timers, t, TranscriptPeriod)
        /\ UNCHANGED <<clients, persistVars, view, mounted, isInterviewActive, vapiInstance, isMuted,
                       volume, isCreatingCall, isLoading, error, nextTimer,
                       now, createReq, starts, notifications, wasEnded,
                       apiKey, noopMute>>

\* The transcript interval of the mock.
TranscriptTick ==
    \E t \in Due :
        /\ t.kind = "transcript"
        /\ LET i == t.messageIndex
           IN  IF i < Len(mockScript)
               THEN /\ transcript' =
                         Set(transcript,
                             Append(transcript,
                                    Entry(mockScript[i + 1].speaker,
                                          mockScript[i + 1].text, MockId(i))))
                    /\ timers' = Reschedule(timers,
                                          [t EXCEPT !.messageIndex = i + 1],
                                          TranscriptPeriod) \ {t}
               ELSE /\ timers' = ClearInterval(timers, t.id)
                    /\ UNCHANGED transcript
        /\ UNCHANGED <<clients, persistVars, view, mounted, isInterviewActive, vapiInstance, isMuted,
                       volume, isCreatingCall, isLoading, error, nextTimer,
                       now, createReq, starts, notifications, wasEnded,
                       apiKey, noopMute>>

\* One second passes; a timer that is due fires before the clock moves on.
AdvanceUpTo(maxSeconds) ==
    /\ Due = {}
    /\ now + 1000 <= maxSeconds * 1000
    /\ timers # {} \/ now + 1000 <= MaxIdleSeconds * 1000
    /\ now' = now + 1000
    /\ UNCHANGED <<persistVars, view, mounted, isInterviewActive, vapiInstance, isMuted,
                   volume, isCreatingCall, isLoading, error, transcript,
                   clients, timers, nextTimer, createReq, starts,
                   notifications, wasEnded, apiKey, noopMute>>

(***************************************************************************)
(* The shared interview page.                                              *)
(***************************************************************************)
\* The mock branch of the page's startInterview.
StartMockShared(id) ==
    LET c == Len(clients) + 1
        volTimer == [id |-> nextTimer, kind |-> "volume", owner |-> c,
                     due |-> now + VolumePeriod, messageIndex |-> 0]
        mock == [NewClient("mock", id) EXCEPT
                    !.phase = "running",
                    !.handlers = {"volume-level"},
                    !.mockVolumeInterval = nextTimer,
                    !.startedAt = now]
    IN  /\ clients' = Append(clients, mock)
        /\ timers' = timers \cup {volTimer}
        /\ nextTimer' = nextTimer + 1
        /\ vapiInstance' = c
        /\ isInterviewActive' = TRUE
        /\ isLoading' = FALSE
        /\ UNCHANGED error

\* The catch block of the page's startInterview.
SharedFails(message) ==
    /\ error' = message
    /\ isLoading' = FALSE
    /\ UNCHANGED <<clients, timers, nextTimer, vapiInstance, isInterviewActive>>

\* The real branch of the page's startInterview up to "await vapi.start()".
StartRealShared(id) ==
    LET real == [NewClient("real", id) EXCEPT
                    !.phase = "starting",
                    !.handlers = {"volume-level", "call-start", "call-end",
                                  "speech-start", "speech-end", "message",
                                  "error"}]
    IN  /\ clients' = Append(clients, real)
        /\ UNCHANGED <<timers, nextTimer, vapiInstance, isInterviewActive,
                       isLoading, error>>

\* The mount effect of the page, for the assistantId of the route.
SharedMount ==
    /\ view = "shared" /\ mounted /\ NotStarted
    /\ \E id \in SessionIds \cup {Undefined} :
         IF id = Undefined THEN SharedFails("Invalid interview link")
         ELSE IF StartsWith(id, MockAssistantPrefix) THEN StartMockShared(id)
         ELSE IF ~apiKey THEN SharedFails("Missing API key configuration")
         ELSE StartRealShared(id)
    /\ UNCHANGED <<persistVars, view, mounted, isMuted, volume, isCreatingCall, transcript,
                   now, createReq, starts, notifications, wasEnded, apiKey, noopMute>>

\* vapi.on("call-start", ...) of the page
OnCallStart ==
    \E c \in DOMAIN clients :
        /\ Emitting(c) /\ "call-start" \in clients[c].handlers
        /\ ~clients[c].callStarted
        /\ clients' = [clients EXCEPT ![c].callStarted = TRUE]
        /\ isInterviewActive' = Set(isInterviewActive, TRUE)
        /\ UNCHANGED <<persistVars, view, mounted, vapiInstance, isMuted, volume,
                       isCreatingCall, isLoading, error, transcript, timers,
                       nextTimer, now, createReq, starts, notifications,
                       wasEnded, apiKey, noopMute>>

\* speech-start, speech-end and message of the page: console.log only.
OnLoggedEvent ==
    \E c \in DOMAIN clients, ev \in {"speech-start", "speech-end", "message"} :
        /\ Emitting(c) /\ ev \in clients[c].handlers
        /\ UNCHANGED <<persistVars, view, mounted, isInterviewActive, vapiInstance, isMuted,
                       volume, isCreatingCall, isLoading, error, transcript, clients,
                       timers, nextTimer, now, createReq, starts,
                       notifications, wasEnded, apiKey, noopMute>>

ClickStart == ClickStartUpTo(MaxStarts)
OnTranscript == OnTranscriptUpTo(MaxMessages)

Advance == AdvanceUpTo(MaxSeconds)

(***************************************************************************)
(* The views as one state machine.                                         *)
(***************************************************************************)
vars == <<view, mounted, isInterviewActive, vapiInstance, isMuted, volume,
          isCreatingCall, isLoading, error, transcript, clients, timers,
          nextTimer, now, createReq, starts, notifications, noopMute,
          wasEnded, apiKey, status, savedFlag, submissions, endCalls,
          shortDuration, backend, stored, assistantCalls, storage,
          enhanceCalls>>

Next ==
    \/ ClickStart
    \/ CreateFails
    \/ CreateSucceeds
    \/ RealStartResolves
    \/ RealStartThrows
    \/ OnVolumeLevel
    \/ OnCallEnd
    \/ OnTranscript
    \/ OnError
    \/ EndInterview
    \/ ToggleMute
    \/ Unmount
    \/ VolumeTick
    \/ TranscriptTick
    \/ Advance
    \/ SharedMount
    \/ OnCallStart
    \/ OnLoggedEvent

Spec == Init /\ [][Next]_vars

(***************************************************************************)
(* The same views when the user may start a second interview on them.      *)
(***************************************************************************)
ClickStartAgain == ClickStartUpTo(MaxStarts + 1)

NextRestart ==
    \/ ClickStartAgain
    \/ CreateFails
    \/ CreateSucceeds
    \/ RealStartResolves
    \/ RealStartThrows
    \/ OnVolumeLevel
    \/ OnCallEnd
    \/ OnTranscript
    \/ OnError
    \/ EndInterview
    \/ ToggleMute
    \/ Unmount
    \/ VolumeTick
    \/ TranscriptTick
    \/ Advance
    \/ SharedMount
    \/ OnCallStart
    \/ OnLoggedEvent

SpecRestart == Init /\ [][NextRestart]_vars

(***************************************************************************)
(* The test interview view alone, with the backend answering every create  *)
(* request with a placeholder id and the clock running long enough for the *)
(* whole script of the simulated agent.                                    *)
(***************************************************************************)
PlaceholderIds == { id \in SessionIds : StartsWith(id, MockCallPrefix) }

InitScript == Init /\ view = "testNew"

CreatePlaceholder == CreateSucceedsWith(PlaceholderIds)

AdvanceScript == AdvanceUpTo(ScriptSeconds)

NextScript ==
    \/ ClickStart
    \/ CreateFails
    \/ CreatePlaceholder
    \/ EndInterview
    \/ ToggleMute
    \/ Unmount
    \/ VolumeTick
    \/ TranscriptTick
    \/ AdvanceScript

SpecScript == InitScript /\ [][NextScript]_vars

(***************************************************************************)
(* The script run with the timers and the clock scheduled fairly.  The     *)
(* clock runs on past ScriptSeconds for as long as a script interval is    *)
(* live, so that every script interval can reach the end of the script.    *)
(***************************************************************************)
ScriptIntervals == { t \in timers : t.kind = "transcript" }

AdvanceLive ==
    AdvanceUpTo(IF ScriptIntervals # {} THEN (now \div 1000) + 1
                ELSE ScriptSeconds)

NextScriptLive ==
    \/ ClickStart
    \/ CreatePlaceholder
    \/ EndInterview
    \/ Unmount
    \/ VolumeTick
    \/ TranscriptTick
    \/ AdvanceLive

\* setInterval callbacks that are due are run by the event loop, and time
\* passes.
SpecScriptLive ==
    /\ InitScript
    /\ [][NextScriptLive]_vars
    /\ WF_vars(VolumeTick)
    /\ WF_vars(TranscriptTick)
    /\ WF_vars(AdvanceLive)

(***************************************************************************)
(* The test interview view with a vendor call, the real client delivering  *)
(* one transcript event more than elsewhere, so that a text can repeat.    *)
(***************************************************************************)
VendorIds == SessionIds \ PlaceholderIds

CreateVendor == CreateSucceedsWith(VendorIds)

OnTranscriptMore == OnTranscriptUpTo(MaxMessages + 1)

NextTranscript ==
    \/ ClickStart
    \/ CreateFails
    \/ CreateVendor
    \/ RealStartResolves
    \/ RealStartThrows
    \/ OnVolumeLevel
    \/ OnCallEnd
    \/ OnTranscriptMore
    \/ OnError
    \/ EndInterview
    \/ ToggleMute
    \/ Unmount

SpecTranscript == InitScript /\ [][NextTranscript]_vars

(***************************************************************************)
(* The simulated voice agent on its own: one mockVapi object of the test   *)
(* view, with on, start and stop called in any order and any number of     *)
(* times.                                                                  *)
(***************************************************************************)
\* "const mockVapi = { ... }".
AgentConstruct ==
    /\ clients = << >>
    /\ \E id \in PlaceholderIds : clients' = << NewClient("mock", id) >>
    /\ UNCHANGED <<persistVars, view, mounted, isInterviewActive, vapiInstance,
                   isMuted, volume, isCreatingCall, isLoading, error,
                   transcript, timers, nextTimer, now, createReq, starts,
                   notifications, wasEnded, apiKey, noopMute>>

\* The events whose callback a client still holds.  The mock keeps the
\* volume-level callback in the closure of its interval and nothing else.
Retained(c) ==
    IF c.kind = "mock"
    THEN IF c.mockVolumeInterval # NoTimer THEN {"volume-level"} ELSE {}
    ELSE c.handlers

\* The events on() is called with: the one the mock acts on and two of those
\* it has no branch for.
AgentEvents == {"volume-level", "call-start", "call-end"}

\* mockVapi.on(event, setVolume): handlers records the events on() has been
\* called with.
AgentOn ==
    \E ev \in AgentEvents :
        /\ clients # << >>
        /\ IF ev = "volume-level"
           THEN /\ nextTimer <= MaxIntervals
                /\ timers' = timers \cup
                       {[id |-> nextTimer, kind |-> "volume", owner |-> 1,
                         due |-> now + VolumePeriod, messageIndex |-> 0]}
                /\ nextTimer' = nextTimer + 1
                /\ clients' = [clients EXCEPT
                                 ![1].handlers = @ \cup {ev},
                                 ![1].mockVolumeInterval = nextTimer]
           ELSE /\ clients' = [clients EXCEPT ![1].handlers = @ \cup {ev}]
                /\ UNCHANGED <<timers, nextTimer>>
        /\ UNCHANGED <<persistVars, view, mounted, isInterviewActive,
                       vapiInstance, isMuted, volume, isCreatingCall,
                       isLoading, error, transcript, now, createReq, starts,
                       notifications, wasEnded, apiKey, noopMute>>

\* mockVapi.start().
AgentStart ==
    /\ clients # << >>
    /\ nextTimer <= MaxIntervals
    /\ transcript' = Set(transcript,
                         << Entry(mockScript[1].speaker, mockScript[1].text,
                                  MockId(0)) >>)
    /\ timers' = timers \cup
           {[id |-> nextTimer, kind |-> "transcript", owner |-> 1,
             due |-> now + TranscriptPeriod, messageIndex |-> 1]}
    /\ nextTimer' = nextTimer + 1
    /\ clients' = [clients EXCEPT ![1].phase = "running",
                                  ![1].startedAt = now,
                                  ![1].mockTranscriptInterval = nextTimer]
    /\ UNCHANGED <<persistVars, view, mounted, isInterviewActive, vapiInstance,
                   isMuted, volume, isCreatingCall, isLoading, error, now,
                   createReq, starts, notifications, wasEnded, apiKey,
                   noopMute>>

\* mockVapi.stop().
AgentStop ==
    /\ clients # << >>
    /\ clients[1].stopCalls < MaxStops
    /\ timers' = MockStop(timers, clients[1])
    /\ clients' = [clients EXCEPT ![1] = Stopped(@)]
    /\ UNCHANGED <<persistVars, view, mounted, isInterviewActive, vapiInstance,
                   isMuted, volume, isCreatingCall, isLoading, error,
                   transcript, nextTimer, now, createReq, starts,
                   notifications, wasEnded, apiKey, noopMute>>

NextAgent ==
    \/ AgentConstruct
    \/ AgentOn
    \/ AgentStart
    \/ AgentStop
    \/ VolumeTick
    \/ TranscriptTick
    \/ Advance

SpecAgent == InitScript /\ [][NextAgent]_vars

(***************************************************************************)
(* The server: createInterviewAssistant(projectId), one step per await.    *)
(***************************************************************************)
Projects == {1}                 \* the projects storage holds
ProjectIds == {1, 2}            \* the ids the operation is called with

VendorAssistantId == [prefix |-> "", n |-> 1]
MockAssistantId == [prefix |-> MockAssistantPrefix, n |-> 1]

Unsettled == "pending"

NewCall(projectId) ==
    [ projectId |-> projectId,
      pc |-> "getProject",       \* the await the call is suspended at
      project |-> Unsettled,       \* found, missing, rejected
      materials |-> Unsettled,     \* read, rejected
      assistant |-> Unsettled,     \* id, noId, rejected
      result |-> Unsettled,        \* returned, thrown
      assistantId |-> Undefined,
      message |-> "" ]

\* The outer catch: whatever was thrown, the caller sees this error.
Thrown(call) ==
    [call EXCEPT !.pc = "done", !.result = "thrown",
                 !.message = "Failed to create interview assistant"]

Returned(call, id) ==
    [call EXCEPT !.pc = "done", !.result = "returned", !.assistantId = id]

backendFrame == <<uiVars, envVars, status, savedFlag, submissions, endCalls,
                  shortDuration, backend, stored, storage, enhanceCalls>>

CallCreateInterviewAssistant ==
    \E projectId \in ProjectIds :
        /\ Len(assistantCalls) < MaxCalls
        /\ assistantCalls' = Append(assistantCalls, NewCall(projectId))
        /\ UNCHANGED backendFrame

\* "await storage.getProject(projectId)" settles; "if (!project) throw".
GetProjectSettles ==
    \E i \in DOMAIN assistantCalls :
        LET call == assistantCalls[i]
        IN  /\ call.pc = "getProject"
            /\ \E outcome \in {IF call.projectId \in Projects
                               THEN "found" ELSE "missing", "rejected"} :
                   assistantCalls' =
                       [assistantCalls EXCEPT ![i] =
                           IF outcome = "found"
                           THEN [call EXCEPT !.project = outcome,
                                             !.pc = "getResearchMaterials"]
                           ELSE Thrown([call EXCEPT !.project = outcome])]
            /\ UNCHANGED backendFrame

\* "await storage.getResearchMaterials(projectId)" settles; a file that
\* cannot be read is skipped inside the loop.
GetResearchMaterialsSettles ==
    \E i \in DOMAIN assistantCalls :
        LET call == assistantCalls[i]
        IN  /\ call.pc = "getResearchMaterials"
            /\ \E outcome \in {"read", "rejected"} :
                   assistantCalls' =
                       [assistantCalls EXCEPT ![i] =
                           IF outcome = "read"
                           THEN [call EXCEPT !.materials = outcome,
                                             !.pc = "assistants.create"]
                           ELSE Thrown([call EXCEPT !.materials = outcome])]
            /\ UNCHANGED backendFrame

\* An inner try block with no catch of its own: the vendor's failure reaches
\* the outer catch.
AssistantsCreateNoFallback ==
    \E i \in DOMAIN assistantCalls :
        LET call == assistantCalls[i]
        IN  /\ call.pc = "assistants.create"
            /\ \E outcome \in {"id", "noId", "rejected"} :
                   assistantCalls' =
                       [assistantCalls EXCEPT ![i] =
                           IF outcome = "id"
                           THEN Returned([call EXCEPT !.assistant = outcome],
                                         VendorAssistantId)
                           ELSE Thrown([call EXCEPT !.assistant = outcome])]
            /\ UNCHANGED backendFrame

\* "await vapiClient.assistants.create(...)" settles; "if (!assistant ||
\* !assistant.id) throw"; the inner catch returns the placeholder id.
AssistantsCreateSettles ==
    \E i \in DOMAIN assistantCalls :
        LET call == assistantCalls[i]
        IN  /\ call.pc = "assistants.create"
            /\ \E outcome \in {"id", "noId", "rejected"} :
                   assistantCalls' =
                       [assistantCalls EXCEPT ![i] =
                           IF outcome = "id"
                           THEN Returned([call EXCEPT !.assistant = outcome],
                                         VendorAssistantId)
                           ELSE Returned([call EXCEPT !.assistant = outcome],
                                         MockAssistantId)]
            /\ UNCHANGED backendFrame

NextBackend ==
    \/ CallCreateInterviewAssistant
    \/ GetProjectSettles
    \/ GetResearchMaterialsSettles
    \/ AssistantsCreateSettles

SpecBackend == InitScript /\ [][NextBackend]_vars

(***************************************************************************)
(* The hand-off of the session id: the test view posts create-interview,   *)
(* the route answers with the result of createInterviewAssistant, and      *)
(* onSuccess starts the interview with data.callId.                        *)
(***************************************************************************)
\* res.status(201).json(result): the fields of the response body.
ResponseBody(call) == [assistantId |-> call.assistantId]

\* data.<name>: a field the body does not have reads as undefined.
Field(body, name) == IF name \in DOMAIN body THEN body[name] ELSE Undefined

\* The calls whose response the view is still waiting for.
Awaited == { i \in DOMAIN assistantCalls : i > starts - createReq }

\* The route handler calls createInterviewAssistant for a posted request.
RouteCreateInterview ==
    /\ Len(assistantCalls) < starts
    /\ CallCreateInterviewAssistant

\* The 201 response reaches onSuccess: startInterview(data.callId).
CreateFromBackend ==
    \E i \in Awaited :
        /\ assistantCalls[i].result = "returned"
        /\ CreateSucceedsWith(
               {Field(ResponseBody(assistantCalls[i]), "callId")})

\* The 500 response reaches onError.
CreateFailsFromBackend ==
    \E i \in Awaited :
        /\ assistantCalls[i].result = "thrown"
        /\ CreateFails

NextHandoff ==
    \/ ClickStartAgain
    \/ RouteCreateInterview
    \/ GetProjectSettles
    \/ GetResearchMaterialsSettles
    \/ AssistantsCreateSettles
    \/ CreateFromBackend
    \/ CreateFailsFromBackend
    \/ ToggleMute
    \/ Unmount

SpecHandoff == InitScript /\ [][NextHandoff]_vars

(***************************************************************************)
(* The Session Controller's persistence path: end(reason),                 *)
(* persistIfNeeded(), the manual save, and the storage write behind them.  *)
(***************************************************************************)
EndReasons == {"user-requested", "remote-ended", "component-unmounted"}

\* Time between two events of a session, in milliseconds.
Delays == {400, 37500}

\* What the controller's steps leave alone: the view state that is not its own.
sessionFrame == <<view, mounted, isInterviewActive, vapiInstance, isMuted,
                  volume, isCreatingCall, isLoading, error, clients, timers,
                  nextTimer, createReq, starts, noopMute, wasEnded, apiKey,
                  shortDuration, backend, assistantCalls, storage,
                  enhanceCalls>>

\* last entry timestamp - first entry timestamp, in whole seconds, floored.
Duration(tr) ==
    IF Len(tr) < 2 THEN shortDuration
    ELSE Num((tr[Len(tr)].timestamp - tr[1].timestamp) \div 1000)

\* The body of a transcript write.
Submission(origin) ==
    [ origin |-> origin,             \* "auto" or "manual"
      transcriptData |-> transcript,
      duration |-> Duration(transcript),
      outcome |-> "pending" ]        \* pending, saved, failed

Pending == { i \in DOMAIN submissions : submissions[i].outcome = "pending" }

\* A persistIfNeeded() that submits whatever the transcript holds.
PersistAlways(subs) ==
    IF ~savedFlag THEN Append(subs, Submission("auto")) ELSE subs

\* persistIfNeeded(), up to the submission.
PersistIfNeeded(subs) ==
    IF transcript # << >> /\ ~savedFlag
    THEN Append(subs, Submission("auto"))
    ELSE subs

\* MemStorage.createTranscript: the record as given.
MemCreateTranscript(t) ==
    [transcriptData |-> t.transcriptData, duration |-> t.duration]

\* DatabaseStorage.createTranscript: duration: transcript.duration || null
DbCreateTranscript(t) ==
    [ transcriptData |-> t.transcriptData,
      duration |-> IF t.duration.kind = "number" /\ t.duration.n # 0
                   THEN t.duration ELSE Null ]

createTranscript(t) ==
    IF backend = "MemStorage" THEN MemCreateTranscript(t)
    ELSE DbCreateTranscript(t)

\* createSession()
CreateSession ==
    /\ status = "idle"
    /\ status' = "connecting"
    /\ UNCHANGED <<sessionFrame, transcript, now, notifications, savedFlag,
                   submissions, endCalls, stored>>

\* start(sessionId) reaching active
SessionActive ==
    /\ status = "connecting"
    /\ status' = "active"
    /\ UNCHANGED <<sessionFrame, transcript, now, notifications, savedFlag,
                   submissions, endCalls, stored>>

\* appendTranscriptEntry(speaker, text), from the message handler, some time
\* after the event before it: the entry carries the wall-clock time.
AppendTranscriptEntry ==
    \E speaker \in {"assistant", "user"}, text \in {"", "hi"}, d \in Delays :
        /\ status = "active"
        /\ Len(transcript) < MaxEntries
        /\ IF text # ""
           THEN /\ now' = now + d
                /\ transcript' =
                     Append(transcript,
                            [Entry(speaker, text, <<"entry", Len(transcript)>>)
                               EXCEPT !.timestamp = now + d])
           ELSE UNCHANGED <<now, transcript>>
        /\ UNCHANGED <<sessionFrame, notifications, status, savedFlag,
                       submissions, endCalls, stored>>

\* end(reason): valid from any status but ended.
End ==
    \E reason \in EndReasons :
        /\ Len(endCalls) < MaxEndCalls
        /\ endCalls' = Append(endCalls, reason)
        /\ IF status # "ended"
           THEN /\ status' = "ended"
                /\ submissions' = PersistIfNeeded(submissions)
           ELSE UNCHANGED <<status, submissions>>
        /\ UNCHANGED <<sessionFrame, transcript, now, notifications,
                       savedFlag, stored>>

\* The "save with participant name" dialog, confirmed once, while the
\* session is running: the first writer wins on savedFlag.
ManualSave ==
    /\ status = "active"
    /\ transcript # << >> /\ ~savedFlag
    /\ \A i \in DOMAIN submissions : submissions[i].origin # "manual"
    /\ submissions' = Append(submissions, Submission("manual"))
    /\ UNCHANGED <<sessionFrame, transcript, now, notifications, status,
                   savedFlag, endCalls, stored>>

\* A failed submission that is submitted again.
SaveFailsAndRetries ==
    \E i \in Pending :
        /\ submissions' = Append([submissions EXCEPT ![i].outcome = "failed"],
                                 [submissions[i] EXCEPT !.outcome = "pending"])
        /\ Len(submissions) <= MaxEndCalls
        /\ notifications' = Toast("Failed to save transcript")
        /\ UNCHANGED <<sessionFrame, transcript, now, status, savedFlag,
                       endCalls, stored>>

\* A submission fails: reported, savedFlag as it was, nothing sent again.
SaveFails ==
    \E i \in Pending :
        /\ submissions' = [submissions EXCEPT ![i].outcome = "failed"]
        /\ notifications' = Toast("Failed to save transcript")
        /\ UNCHANGED <<sessionFrame, transcript, now, status, savedFlag,
                       endCalls, stored>>

\* A submission reaches the storage write and its response comes back.
SaveSucceeds ==
    \E i \in Pending :
        /\ stored' = Append(stored, createTranscript(submissions[i]))
        /\ submissions' = [submissions EXCEPT ![i].outcome = "saved"]
        /\ savedFlag' = TRUE
        /\ UNCHANGED <<sessionFrame, transcript, now, notifications, status,
                       endCalls>>

InitPersist ==
    /\ InitView
    /\ view = "testNew"
    /\ InitSession
    /\ InitBackend
    /\ shortDuration \in {Num(0), Absent}
    /\ backend \in Backends

NextPersist ==
    \/ CreateSession
    \/ SessionActive
    \/ AppendTranscriptEntry
    \/ End
    \/ ManualSave
    \/ SaveFails
    \/ SaveSucceeds

SpecPersist == InitPersist /\ [][NextPersist]_vars

(***************************************************************************)
(* Properties.                                                             *)
(***************************************************************************)
Min(a, b) == IF a <= b THEN a ELSE b

\* C1: at-most-once save.  Whatever end() calls and manual save a session
\* sees, the storage write behind the transcript submissions is invoked at
\* most once.  (Refuted: a manual save still in flight when a remote call-end
\* ends the session is followed by the automatic save; both are written.)
C1_AtMostOneWrite == Len(stored) <= 1

\* C2: no save on an empty transcript.  Once end() has been called on a
\* session whose transcript is empty, nothing has been submitted and nothing
\* has been written to the storage, whatever the reasons of the calls.
C2_NoSaveOnEmpty ==
    (endCalls # << >> /\ transcript = << >>) =>
        (submissions = << >> /\ stored = << >>)

C2_EndedEmpty ==
    /\ Len(endCalls) >= 2 /\ endCalls[1] # endCalls[2]
    /\ status = "ended" /\ transcript = << >>

\* C3: timer cleanup.  Once a view has ended a session, no interval timer
\* of that session's client is still pending, so no later tick can append a
\* transcript entry or update the volume.  (Refuted: the unmount cleanup of
\* the shared interview page reads the vapiInstance of its first render and
\* stops nothing; the simulated agent's volume interval stays pending.)
C3_TimersCancelledAtEnd ==
    \A t \in timers : ~clients[t.owner].ended

\* C4: placeholder routing.  Every client built for a session id that
\* carries the placeholder prefix of its view is the simulated agent, never
\* the real client.  (Refuted: the first test interview view builds the real
\* client for every id.)
C4_PlaceholderIsSimulated ==
    \A c \in DOMAIN clients :
        StartsWith(clients[c].sessionId,
                   IF view = "shared" THEN MockAssistantPrefix
                   ELSE MockCallPrefix)
            => clients[c].kind = "mock"

\* C5 as stated: ended is terminal; no step takes the status from ended to
\* connecting or active.  (Refuted: the Start Interview button is rendered
\* again once the interview is over.)
C5_EndedIsTerminal ==
    [][Status = "ended" => Status' \notin {"connecting", "active"}]_vars

\* C5 as amended: the status leaves ended only by the user's Start Interview
\* click or by the completion of a start that was already under way (the
\* create response arriving, the client's start() resolving); ending, muting,
\* unmounting, timers and client events never reopen an ended session.
C5_EndedLeftOnlyByStart ==
    [][(Status = "ended" /\ Status' \in {"connecting", "active"})
         => (ClickStartAgain \/ CreateSucceeds \/ RealStartResolves)]_vars

C5_RestartedAfterEnd ==
    /\ starts = MaxStarts + 1
    /\ isInterviewActive
    /\ \E c \in DOMAIN clients : clients[c].ended /\ vapiInstance # c

\* C6: transcript growth of the simulated agent.  While a simulated agent
\* started at time s is attached to the test interview view and has not been
\* stopped, at every time t with no tick outstanding the transcript is the
\* prefix of the script of length min(script length, 1 + the number of whole
\* 8-second intervals in t - s), speakers and texts in script order.
C6_ScriptPrefix ==
    \A c \in DOMAIN clients :
        ( /\ view = "testNew" /\ mounted
          /\ vapiInstance = c
          /\ clients[c].kind = "mock" /\ clients[c].stopCalls = 0
          /\ Due = {} )
        => LET n == Min(Len(mockScript),
                        1 + ((now - clients[c].startedAt) \div 8000))
           IN  /\ Len(transcript) = n
               /\ \A i \in 1..n :
                    /\ transcript[i].type = mockScript[i].speaker
                    /\ transcript[i].text = mockScript[i].text

C6_WholeScriptShown ==
    \E c \in DOMAIN clients :
        /\ vapiInstance = c /\ mounted
        /\ clients[c].kind = "mock" /\ clients[c].stopCalls = 0
        /\ Due = {}
        /\ now - clients[c].startedAt > 8000 * Len(mockScript)
        /\ Len(transcript) = Len(mockScript)

C8_DurationStored ==
    \A i \in DOMAIN stored :
        LET tr == stored[i].transcriptData
            want == IF Len(tr) >= 2
                    THEN Num((tr[Len(tr)].timestamp - tr[1].timestamp)
                               \div 1000)
                    ELSE shortDuration
        IN  IF want.kind = "number"
            THEN stored[i].duration = want
            ELSE stored[i].duration.kind # "number"

\* C9: a failed save does not block termination.  Whenever the submission
\* made by end() has failed, the session is ended, the failure has been
\* reported, that submission is the only one end() ever made, and savedFlag
\* is true only if another save succeeded.
C9_FailureDoesNotBlock ==
    \A i \in DOMAIN submissions :
        (submissions[i].origin = "auto" /\ submissions[i].outcome = "failed")
        => /\ status = "ended"
           /\ "Failed to save transcript" \in notifications
           /\ \A j \in DOMAIN submissions :
                submissions[j].origin = "auto" => j = i
           /\ savedFlag =>
                \E j \in DOMAIN submissions : submissions[j].outcome = "saved"

C9_AutoSaveFailed ==
    /\ \E i \in DOMAIN submissions :
         submissions[i].origin = "auto" /\ submissions[i].outcome = "failed"
    /\ ~savedFlag /\ status = "ended" /\ Len(endCalls) >= 2

\* C10: an error event only notifies.  The error handler shows the
\* notification and leaves the status, the transcript, the mute flag, the
\* volume and the attached client as they were; and the status leaves active
\* only by endInterview or by a call-end event.
C10_ErrorOnlyNotifies ==
    [][ /\ OnError =>
             /\ Status' = Status
             /\ "Interview error" \in notifications'
             /\ UNCHANGED <<transcript, isMuted, volume, vapiInstance, clients>>
        /\ (Status = "active" /\ Status' # "active") =>
             (EndInterview \/ OnCallEnd) ]_vars

C10_ErrorMidSession ==
    /\ "Interview error" \in notifications
    /\ Status = "active" /\ vapiInstance # NoClient
    /\ transcript # << >>

\* C11: registration before start.  Every real voice client whose start has
\* been issued has a handler registered for each of volume-level, call-start,
\* call-end, speech-start, speech-end, message and error.
C11_AllHandlersBeforeStart ==
    \A c \in DOMAIN clients :
        (clients[c].kind = "real" /\ clients[c].phase # "new") =>
            ClientEvents \subseteq clients[c].handlers

\* C13: uniform termination.  A client on which the session has ended, by
\* the user, by the unmount of the view or by a call-end event of the vendor
\* while it was attached, has been stopped and is no longer attached.
C13_UniformTermination ==
    \A c \in DOMAIN clients :
        (clients[c].ended \/ (clients[c].callEnded /\ vapiInstance = c)) =>
            /\ clients[c].stopCalls > 0
            /\ (mounted => vapiInstance # c)

\* C14: a failed session creation.  The failure handler of the create request
\* notifies the user, constructs and starts no client, leaves the interview
\* inactive (idle or connecting in a view that has not ended a session) and
\* issues no further request.
C14_CreateFailureContained ==
    [][ CreateFails =>
          /\ "Failed to create interview" \in notifications'
          /\ UNCHANGED <<clients, timers, nextTimer, vapiInstance,
                         isInterviewActive, transcript>>
          /\ (Status # "active" => Status' # "active")
          /\ ((~wasEnded /\ Status # "active") =>
                 Status' \in {"idle", "connecting"})
          /\ createReq' = createReq - 1
          /\ starts' = starts ]_vars

C14_CreateFailed ==
    /\ "Failed to create interview" \in notifications
    /\ clients = << >> /\ vapiInstance = NoClient
    /\ Status = "idle" /\ createReq = 0 /\ starts > 0

\* C15: a failed client start.  When the start of the real client throws in
\* a mounted view, the user is notified, the status is not active, no client
\* is attached and the transcript is empty.
C15_StartFailureContained ==
    [][ (RealStartThrows /\ mounted) =>
          /\ \/ "Failed to start interview" \in notifications'
             \/ error' # "null"
          /\ Status' # "active"
          /\ vapiInstance' = NoClient
          /\ transcript' = << >> ]_vars

\* C19: the status becomes active, with a real client, only once a call-start
\* event has been received, and with the simulated agent as soon as it has
\* been started.
C19_ActiveOnCallStart ==
    /\ (isInterviewActive /\ vapiInstance # NoClient
          /\ clients[vapiInstance].kind = "real") =>
            clients[vapiInstance].callStarted
    /\ \A c \in DOMAIN clients :
          (clients[c].kind = "real" /\ clients[c].phase = "starting"
             /\ ~clients[c].callEnded /\ ~clients[c].callStarted /\ mounted
             /\ vapiInstance = NoClient) =>
                Status = "connecting"

\* C16: stop() of the simulated agent is idempotent.  After any call of
\* stop(), before or after start(), a further call would leave the intervals
\* as they are; a call changes nothing of the agent but its intervals.
C16_StopIdempotent ==
    [][ AgentStop =>
          /\ MockStop(timers', clients'[1]) = timers'
          /\ clients' = [clients EXCEPT ![1].stopCalls = @ + 1]
          /\ UNCHANGED <<transcript, volume, nextTimer>> ]_vars

C16_StoppedTwice ==
    /\ clients # << >> /\ clients[1].kind = "mock"
    /\ clients[1].stopCalls >= 2
    /\ clients[1].phase = "running"
    /\ clients[1].mockVolumeInterval # NoTimer
    /\ clients[1].mockTranscriptInterval # NoTimer

\* C17: whatever on() and start() calls one simulated agent has received,
\* stop() cancels every interval the agent created.
C17_StopCancelsAll ==
    [][ AgentStop => \A t \in timers' : t.owner # 1 ]_vars

\* C18: on the simulated agent a call-start registration is kept and
\* scheduled (or has fired), and a call-end registration is kept so that it
\* can be invoked later.
C18_RegistrationsKept ==
    \A c \in DOMAIN clients :
        clients[c].kind = "mock" =>
            /\ "call-start" \in clients[c].handlers =>
                   /\ "call-start" \in Retained(clients[c])
                   /\ \/ clients[c].callStarted
                      \/ \E t \in timers :
                            t.owner = c /\ t.kind = "call-start"
            /\ "call-end" \in clients[c].handlers =>
                   "call-end" \in Retained(clients[c])

\* The transcript events with a text that the clients have delivered.
TextEvents(cs) ==
    LET Sum[i \in 0..Len(cs)] ==
            IF i = 0 THEN 0 ELSE Sum[i - 1] + cs[i].textEvents
    IN  Sum[Len(cs)]

C12_FailsOnlyOnProjectLookup ==
    \A i \in DOMAIN assistantCalls :
        LET call == assistantCalls[i]
        IN  /\ (call.project = "found"
                  /\ call.assistant \in {"noId", "rejected"}) =>
                   /\ call.result = "returned"
                   /\ StartsWith(call.assistantId, MockAssistantPrefix)
            /\ call.result = "thrown" =>
                   call.project \in {"missing", "rejected"}

\* C12, amended: for an existing project a failed assistant creation returns
\* an id with the mock prefix and a successful one the vendor's id; the
\* operation fails only when one of its two storage reads fails: the project
\* or its research materials.
C12_FallbackOnVendorFailure ==
    \A i \in DOMAIN assistantCalls :
        LET call == assistantCalls[i]
        IN  /\ (call.project = "found"
                  /\ call.assistant \in {"noId", "rejected"}) =>
                   /\ call.result = "returned"
                   /\ StartsWith(call.assistantId, MockAssistantPrefix)
            /\ call.assistant = "id" =>
                   /\ call.result = "returned"
                   /\ call.assistantId = VendorAssistantId
            /\ call.result = "thrown" =>
                   \/ call.project \in {"missing", "rejected"}
                   \/ call.materials = "rejected"

C12_FellBackAndFailed ==
    \E i, j \in DOMAIN assistantCalls :
        /\ assistantCalls[i].assistant = "rejected"
        /\ assistantCalls[i].result = "returned"
        /\ StartsWith(assistantCalls[i].assistantId, MockAssistantPrefix)
        /\ assistantCalls[j].project = "missing"
        /\ assistantCalls[j].result = "thrown"

\* C21: the transcript is append-only during an active session.  A step
\* that leaves the interview active on the same client keeps the transcript
\* as a prefix of the new one, so entries are appended in the order of the
\* callbacks; a volume-level event, of the vendor or of the simulated agent,
\* never changes the transcript.
IsPrefix(a, b) == Len(a) <= Len(b) /\ SubSeq(b, 1, Len(a)) = a

C21_AppendOnly ==
    [][ /\ (isInterviewActive /\ isInterviewActive'
              /\ vapiInstance' = vapiInstance) =>
               IsPrefix(transcript, transcript')
        /\ (OnVolumeLevel \/ VolumeTick) => transcript' = transcript ]_vars

C21_GrewWhileActive ==
    /\ isInterviewActive /\ mounted /\ vapiInstance # NoClient
    /\ Len(transcript) >= 2
    /\ volume # 0

\* C22: the mute flag follows the client.  Whenever a client is attached to
\* a mounted view, the mute flag of the view equals the value last given to
\* that client's setMuted, a client that was never told anything counting as
\* unmuted.
C22_MuteFlagMatchesClient ==
    (mounted /\ vapiInstance # NoClient) =>
        isMuted = clients[vapiInstance].muted

\* C23: the ids of the transcript entries are unique.  No two entries of the
\* transcript carry the same id, whatever the clock reads when their events
\* arrive.
C23_UniqueIds ==
    \A i, j \in DOMAIN transcript :
        i # j => transcript[i].id # transcript[j].id

\* C24: the scripted transcript is bounded and ends by itself.  The
\* transcript of the simulated agent never holds more entries than the
\* script has lines, and from some point on no script interval is live: an
\* interval that nobody stops cancels itself once the script is exhausted.
C24_ScriptEnds ==
    /\ [](Len(transcript) <= Len(mockScript))
    /\ <>[](ScriptIntervals = {})

C24_CancelledItself ==
    \E c \in DOMAIN clients :
        /\ mounted /\ vapiInstance = c
        /\ clients[c].kind = "mock" /\ clients[c].stopCalls = 0
        /\ clients[c].mockTranscriptInterval # NoTimer
        /\ ScriptIntervals = {}
        /\ Len(transcript) = Len(mockScript)

\* C25: the shape of the script.  The transcript of the simulated agent
\* opens with an assistant line, no two consecutive entries of it have the
\* same speaker, and once the whole script is shown it closes with an
\* assistant line.
C25_SpeakersAlternate ==
    /\ transcript # << >> => transcript[1].type = "assistant"
    /\ \A i \in 1..(Len(transcript) - 1) :
          transcript[i].type # transcript[i + 1].type
    /\ Len(transcript) = Len(mockScript) =>
          transcript[Len(transcript)].type = "assistant"

\* C26: no timer outlives its view.  Whenever the view is unmounted, no
\* volume or transcript interval of a simulated agent is live.
C26_NoTimerAfterUnmount ==
    ~mounted => timers = {}

\* C27: the hand-off of the session id.  When the backend operation has
\* succeeded and its response reaches the view, the view starts a client on
\* the identifier the backend produced, and for a placeholder identifier that
\* client is the simulated agent and the interview becomes active.
C27_IdHandedOver ==
    [][ (CreateFromBackend /\ mounted) =>
          /\ Len(clients') = Len(clients) + 1
          /\ LET c == clients'[Len(clients')]
             IN  /\ c.sessionId # Undefined
                 /\ \E i \in Awaited :
                       /\ assistantCalls[i].result = "returned"
                       /\ c.sessionId = assistantCalls[i].assistantId
                 /\ StartsWith(c.sessionId, MockAssistantPrefix) =>
                       (c.kind = "mock" /\ isInterviewActive') ]_vars


(***************************************************************************)
(* The server's store and the routes that write to it.  A route is one     *)
(* step when its awaits are storage calls only; POST /api/enhance-prompt   *)
(* is split at its await of the enhancer.  A request the route answers     *)
(* with 400, 401, 403 or 404 leaves the store as it was and is no step.    *)
(***************************************************************************)
StoreUsers == {1, 2}                        \* req.user.id of the sessions
ProjectNames == {"n1", "n2"}
Objectives == {"o1", "o2"}
FallbackPrompt == "Could not generate prompt"
EnhancedPrompts == {"p1", FallbackPrompt}   \* what enhancePrompt resolves to

\* Map.prototype.set and Map.prototype.delete.
MapSet(map, key, value) ==
    [k \in DOMAIN map \cup {key} |-> IF k = key THEN value ELSE map[k]]

MapDelete(map, keys) == [k \in DOMAIN map \ keys |-> map[k]]

\* "{ ...project, ...updates }".
Spread(project, updates) ==
    [f \in DOMAIN project \cup DOMAIN updates |->
        IF f \in DOMAIN updates THEN updates[f] ELSE project[f]]

createProject(s, userId, name) ==
    [s EXCEPT !.projects =
                  MapSet(@, s.currentProjectId,
                         [id |-> s.currentProjectId, userId |-> userId,
                          name |-> name, researchObjective |-> "null",
                          interviewPrompt |-> "null"]),
              !.currentProjectId = @ + 1]

\* "if (!project) return undefined".
updateProject(s, id, updates) ==
    IF id \notin DOMAIN s.projects
    THEN s
    ELSE [s EXCEPT !.projects = MapSet(@, id, Spread(s.projects[id], updates))]

updateResearchObjective(s, id, objective) ==
    updateProject(s, id, [researchObjective |-> objective])

updateInterviewPrompt(s, id, prompt) ==
    updateProject(s, id, [interviewPrompt |-> prompt])

createResearchMaterial(s, projectId) ==
    [s EXCEPT !.researchMaterials =
                  MapSet(@, s.currentResearchMaterialId,
                         [id |-> s.currentResearchMaterialId,
                          projectId |-> projectId]),
              !.currentResearchMaterialId = @ + 1]

getResearchMaterials(s, projectId) ==
    { m \in DOMAIN s.researchMaterials :
        s.researchMaterials[m].projectId = projectId }

getProjectTranscripts(s, projectId) ==
    { t \in DOMAIN s.transcripts : s.transcripts[t].projectId = projectId }

deleteResearchMaterial(s, id) ==
    [s EXCEPT !.researchMaterials = MapDelete(@, {id})]

storeTranscript(s, projectId) ==
    [s EXCEPT !.transcripts =
                  MapSet(@, s.currentTranscriptId,
                         [id |-> s.currentTranscriptId,
                          projectId |-> projectId]),
              !.currentTranscriptId = @ + 1]

\* MemStorage deletes the project's materials and the project.  DatabaseStorage
\* deletes the materials' rows and the project's row, and the tables' ON DELETE
\* CASCADE removes the project's interview_transcripts rows.
deleteProject(s, id, impl) ==
    [s EXCEPT !.researchMaterials = MapDelete(@, getResearchMaterials(s, id)),
              !.transcripts = IF impl = "DatabaseStorage"
                              THEN MapDelete(@, getProjectTranscripts(s, id))
                              ELSE @,
              !.projects = MapDelete(@, {id})]

\* "getProject(id)" found a project and "project.userId !== req.user!.id"
\* is false.
OwnedBy(s, id, user) == id \in DOMAIN s.projects /\ s.projects[id].userId = user

storeFrame == <<uiVars, envVars, status, savedFlag, submissions, endCalls,
                shortDuration, backend, stored, assistantCalls>>

PostProject(user) ==
    \E name \in ProjectNames :
        /\ storage.currentProjectId <= MaxProjects
        /\ storage' = createProject(storage, user, name)
        /\ UNCHANGED <<storeFrame, enhanceCalls>>

PatchProject(user) ==
    \E id \in DOMAIN storage.projects, name \in ProjectNames :
        /\ OwnedBy(storage, id, user)
        /\ storage' = updateProject(storage, id, [name |-> name])
        /\ UNCHANGED <<storeFrame, enhanceCalls>>

DeleteProject(user) ==
    \E id \in DOMAIN storage.projects :
        /\ OwnedBy(storage, id, user)
        /\ storage' = deleteProject(storage, id, backend)
        /\ UNCHANGED <<storeFrame, enhanceCalls>>

UploadResearchMaterials(user) ==
    \E projectId \in DOMAIN storage.projects :
        /\ OwnedBy(storage, projectId, user)
        /\ storage.currentResearchMaterialId <= MaxMaterials
        /\ storage' = createResearchMaterial(storage, projectId)
        /\ UNCHANGED <<storeFrame, enhanceCalls>>

\* The route checks req.isAuthenticated() and the id, nothing else.
DeleteResearchMaterial(user) ==
    \E materialId \in DOMAIN storage.researchMaterials :
        /\ storage' = deleteResearchMaterial(storage, materialId)
        /\ UNCHANGED <<storeFrame, enhanceCalls>>

PatchResearchObjective(user) ==
    \E id \in DOMAIN storage.projects, objective \in Objectives :
        /\ OwnedBy(storage, id, user)
        /\ storage' = updateResearchObjective(storage, id, objective)
        /\ UNCHANGED <<storeFrame, enhanceCalls>>

NewEnhanceCall(user, projectId, objective) ==
    [user |-> user, projectId |-> projectId, objective |-> objective,
     result |-> "pending", prompt |-> "null"]

\* A handler that reaches the enhancer with the objective still unsaved.
EnhancePromptUnsaved(user, projectId, objective) ==
    /\ Len(enhanceCalls) < MaxEnhanceCalls
    /\ OwnedBy(storage, projectId, user)
    /\ enhanceCalls' =
           Append(enhanceCalls, NewEnhanceCall(user, projectId, objective))
    /\ UNCHANGED <<storeFrame, storage>>

\* POST /api/enhance-prompt up to "await enhancePrompt(...)": the body parsed,
\* the project found and owned, the objective saved.
EnhancePromptRequest(user, projectId, objective) ==
    /\ Len(enhanceCalls) < MaxEnhanceCalls
    /\ OwnedBy(storage, projectId, user)
    /\ storage' = updateResearchObjective(storage, projectId, objective)
    /\ enhanceCalls' =
           Append(enhanceCalls, NewEnhanceCall(user, projectId, objective))
    /\ UNCHANGED storeFrame

PostEnhancePrompt(user) ==
    \E projectId \in DOMAIN storage.projects, objective \in Objectives :
        EnhancePromptRequest(user, projectId, objective)

\* enhancePrompt resolves: the prompt is saved and sent back.
EnhancePromptReturns(i, prompt) ==
    /\ enhanceCalls[i].result = "pending"
    /\ storage' = updateInterviewPrompt(storage, enhanceCalls[i].projectId,
                                        prompt)
    /\ enhanceCalls' = [enhanceCalls EXCEPT ![i].result = "returned",
                                            ![i].prompt = prompt]
    /\ UNCHANGED storeFrame

\* getResearchMaterials or enhancePrompt rejects: the outer catch answers 500.
EnhancePromptThrows(i) ==
    /\ enhanceCalls[i].result = "pending"
    /\ enhanceCalls' = [enhanceCalls EXCEPT ![i].result = "thrown"]
    /\ UNCHANGED <<storeFrame, storage>>

EnhancePromptSettles ==
    \E i \in DOMAIN enhanceCalls :
        \/ \E prompt \in EnhancedPrompts : EnhancePromptReturns(i, prompt)
        \/ EnhancePromptThrows(i)

\* storage.createTranscript for a project the store holds.
CreateTranscript ==
    \E projectId \in DOMAIN storage.projects :
        /\ storage.currentTranscriptId <= MaxStoredTranscripts
        /\ storage' = storeTranscript(storage, projectId)
        /\ UNCHANGED <<storeFrame, enhanceCalls>>

\* Every step the server takes for a request of this user.
RequestBy(user) ==
    \/ PostProject(user)
    \/ PatchProject(user)
    \/ DeleteProject(user)
    \/ UploadResearchMaterials(user)
    \/ DeleteResearchMaterial(user)
    \/ PatchResearchObjective(user)
    \/ PostEnhancePrompt(user)
    \/ \E i \in DOMAIN enhanceCalls :
           /\ enhanceCalls[i].user = user
           /\ \/ \E prompt \in EnhancedPrompts : EnhancePromptReturns(i, prompt)
              \/ EnhancePromptThrows(i)

InitStore ==
    /\ InitView
    /\ view = "testNew"
    /\ InitSession
    /\ InitBackend
    /\ shortDuration = Num(0)
    /\ backend \in Backends

NextStore ==
    \/ \E user \in StoreUsers : PostProject(user)
    \/ \E user \in StoreUsers : PatchProject(user)
    \/ \E user \in StoreUsers : DeleteProject(user)
    \/ \E user \in StoreUsers : UploadResearchMaterials(user)
    \/ \E user \in StoreUsers : DeleteResearchMaterial(user)
    \/ \E user \in StoreUsers : PatchResearchObjective(user)
    \/ \E user \in StoreUsers : PostEnhancePrompt(user)
    \/ EnhancePromptSettles
    \/ CreateTranscript

SpecStore == InitStore /\ [][NextStore]_vars

\* The routes that write a project's objective and prompt, and the routes that
\* create and delete the project.
NextEnhance ==
    \/ \E user \in StoreUsers : PostProject(user)
    \/ \E user \in StoreUsers : DeleteProject(user)
    \/ \E user \in StoreUsers : PatchResearchObjective(user)
    \/ \E user \in StoreUsers : PostEnhancePrompt(user)
    \/ EnhancePromptSettles

SpecEnhance == InitStore /\ [][NextEnhance]_vars


\* C28: a step the server takes for a request of one user leaves every project
\* of another user, and the research materials of that project, as they were.
C28_OwnerOnlyMutation ==
    [][\A user \in StoreUsers :
          RequestBy(user) =>
              \A id \in DOMAIN storage.projects :
                  storage.projects[id].userId # user =>
                      /\ id \in DOMAIN storage'.projects
                      /\ storage'.projects[id] = storage.projects[id]
                      /\ getResearchMaterials(storage', id) =
                             getResearchMaterials(storage, id)]_vars

\* C29: the enhance-prompt handler has saved the submitted objective, and left
\* the prompt alone, by the time it calls the enhancer; when the enhancer fails
\* the handler writes nothing more; when it succeeds the project's prompt is
\* the prompt returned.
C29_ObjectiveSavedBeforeEnhance ==
    [][/\ \A i \in DOMAIN enhanceCalls' \ DOMAIN enhanceCalls :
              LET call == enhanceCalls'[i]
                  id == call.projectId
              IN  /\ call.result = "pending"
                  /\ storage'.projects[id].researchObjective = call.objective
                  /\ storage'.projects[id].interviewPrompt =
                         storage.projects[id].interviewPrompt
       /\ \A i \in DOMAIN enhanceCalls :
              LET id == enhanceCalls[i].projectId
              IN  /\ EnhancePromptThrows(i) => storage' = storage
                  /\ \A prompt \in EnhancedPrompts :
                         EnhancePromptReturns(i, prompt)
                             /\ id \in DOMAIN storage.projects =>
                                 /\ storage'.projects[id].interviewPrompt =
                                        prompt
                                 /\ storage'.projects[id].researchObjective =
                                        storage.projects[id].researchObjective]_vars

\* A handler has answered 500 after the enhancer failed: the project holds the
\* objective it submitted and still has no prompt.
C29_ObjectiveKeptOnFailure ==
    \E i \in DOMAIN enhanceCalls :
        /\ enhanceCalls[i].result = "thrown"
        /\ enhanceCalls[i].projectId \in DOMAIN storage.projects
        /\ LET project == storage.projects[enhanceCalls[i].projectId]
           IN  /\ project.researchObjective = enhanceCalls[i].objective
               /\ project.interviewPrompt = "null"

\* C30: a step that removes a project from the store leaves no research
\* material and no interview transcript with that project's id.
C30_NoRecordOfDeletedProject ==
    [][\A id \in DOMAIN storage.projects \ DOMAIN storage'.projects :
          /\ getResearchMaterials(storage', id) = {}
          /\ getProjectTranscripts(storage', id) = {}]_vars

=============================================================================
